---- MODULE Spec2Model ----
(***************************************************************************)
(* Model of gilboost's packaging script, setup.py.                         *)
(*                                                                         *)
(* The script is straight-line code: two imports, the construction of one  *)
(* RustExtension descriptor, and one call of setup() with five keyword     *)
(* arguments.  The state is the script's position, the names its imports   *)
(* bound, the calls it has made so far (callee and arguments), and the     *)
(* result of the setup() call.  The environment the script runs in is the  *)
(* running interpreter's version and whether the Rust crate of the         *)
(* extension can be located and compiled.                                  *)
(*                                                                         *)
(* Python strings are sequences of one-character strings, so that the      *)
(* reading of python_requires as a version specifier and the splitting of  *)
(* a dotted extension target are computed character by character.          *)
(*                                                                         *)
(* Versions are release segments only, numbers separated by dots: epochs,  *)
(* pre-, post-, dev- and local parts and the trailing wildcard are not     *)
(* modelled; none occurs in the script or in a CPython release's version.  *)
(***************************************************************************)
EXTENDS Integers, Sequences, FiniteSets, TLC

VARIABLES pc, namespace, exts, calls, outcome, pyver, buildable

vars == <<pc, namespace, exts, calls, outcome, pyver, buildable>>

(***************************************************************************)
(* Bounds of the environment: interpreters 3.(12-MinorSpread) ..           *)
(* 3.(12+MinorSpread), micro versions 0 .. MaxMicro.                       *)
(***************************************************************************)
MaxMicro == 3

MinorSpread == 1

InterpreterVersions ==
    { <<3, minor, micro>> : minor \in (12 - MinorSpread)..(12 + MinorSpread),
                            micro \in 0..MaxMicro }

(***************************************************************************)
(* The literals of setup.py.                                               *)
(***************************************************************************)
PackageName_Typo == <<"g", "i", "l", "_", "b", "o", "o", "s", "t">>

PackageName == <<"g", "i", "l", "b", "o", "o", "s", "t">>

PackageVersion_Bumped == <<"0", ".", "1", ".", "1">>

PackageVersion == <<"0", ".", "1", ".", "0">>

ExtensionTarget_Nested ==
    <<"g", "i", "l", "b", "o", "o", "s", "t", ".", "_", "l", "i", "b">>

ExtensionTarget == <<"g", "i", "l", "b", "o", "o", "s", "t">>

ExtensionBinding == "PyO3"

ZipSafe_True == TRUE

ZipSafe == FALSE

PythonRequires == <<"=", "3", ".", "1", "2", ".", "0">>

(***************************************************************************)
(* Strings.                                                                *)
(***************************************************************************)
DigitChars == {"0", "1", "2", "3", "4", "5", "6", "7", "8", "9"}

DigitValue(c) ==
    CASE c = "0" -> 0 [] c = "1" -> 1 [] c = "2" -> 2 [] c = "3" -> 3
      [] c = "4" -> 4 [] c = "5" -> 5 [] c = "6" -> 6 [] c = "7" -> 7
      [] c = "8" -> 8 [] c = "9" -> 9

DigitChar(d) == CHOOSE c \in DigitChars : DigitValue(c) = d

HasPrefix(s, p) == Len(s) >= Len(p) /\ SubSeq(s, 1, Len(p)) = p

RECURSIVE Strip(_)
\* str.strip(): the string without its leading and trailing blanks.
Strip(s) ==
    IF s = <<>> THEN s
    ELSE IF s[1] = " " THEN Strip(Tail(s))
    ELSE IF s[Len(s)] = " " THEN Strip(SubSeq(s, 1, Len(s) - 1))
    ELSE s

RECURSIVE Split(_, _)
\* str.split(sep): the pieces of s between the occurrences of sep.
Split(s, sep) ==
    IF \A i \in 1..Len(s) : s[i] # sep THEN <<s>>
    ELSE LET i == CHOOSE k \in 1..Len(s) :
                     s[k] = sep /\ \A j \in 1..(k - 1) : s[j] # sep
         IN  <<SubSeq(s, 1, i - 1)>> \o Split(SubSeq(s, i + 1, Len(s)), sep)

RECURSIVE ParseNumber(_)
\* int(s) of a string of decimal digits.
ParseNumber(s) ==
    IF s = <<>> THEN 0
    ELSE 10 * ParseNumber(SubSeq(s, 1, Len(s) - 1)) + DigitValue(s[Len(s)])

RECURSIVE FormatNumber(_)
\* str(n) of a natural number.
FormatNumber(n) ==
    IF n < 10 THEN <<DigitChar(n)>>
    ELSE FormatNumber(n \div 10) \o <<DigitChar(n % 10)>>

RECURSIVE Join(_, _)
\* sep.join(parts).
Join(parts, sep) ==
    IF parts = <<>> THEN <<>>
    ELSE IF Len(parts) = 1 THEN parts[1]
    ELSE parts[1] \o <<sep>> \o Join(Tail(parts), sep)

(***************************************************************************)
(* Versions: a release is a sequence of numbers, <<3, 12, 0>>.             *)
(***************************************************************************)
IsReleaseString(s) ==
    LET segs == Split(s, ".")
    IN  \A k \in 1..Len(segs) :
            /\ segs[k] # <<>>
            /\ \A i \in 1..Len(segs[k]) : segs[k][i] \in DigitChars

ParseRelease(s) ==
    LET segs == Split(s, ".")
    IN  [k \in 1..Len(segs) |-> ParseNumber(segs[k])]

FormatRelease(r) == Join([k \in 1..Len(r) |-> FormatNumber(r[k])], ".")

Pad(r, n) == [i \in 1..n |-> IF i <= Len(r) THEN r[i] ELSE 0]

MaxLen(a, b) == IF Len(a) >= Len(b) THEN Len(a) ELSE Len(b)

\* Releases compare as tuples, the shorter one padded with zeros.
ReleaseEq(a, b) == Pad(a, MaxLen(a, b)) = Pad(b, MaxLen(a, b))

ReleaseLess(a, b) ==
    LET n == MaxLen(a, b)
        x == Pad(a, n)
        y == Pad(b, n)
    IN  \E i \in 1..n : x[i] < y[i] /\ \A j \in 1..(i - 1) : x[j] = y[j]

(***************************************************************************)
(* Version specifiers (PEP 440), as the packaging tool reads the value of  *)
(* python_requires: a comma-separated set of clauses, each one of the      *)
(* comparison operators followed by a version.                             *)
(***************************************************************************)
OpCompatible == <<"~", "=">>
OpEqual      == <<"=", "=">>
OpNotEqual   == <<"!", "=">>
OpLessEq     == <<"<", "=">>
OpGreaterEq  == <<">", "=">>
OpLess       == <<"<">>
OpGreater    == <<">">>
OpArbitrary  == <<"=", "=", "=">>

SpecifierOperators ==
    {OpCompatible, OpEqual, OpNotEqual, OpLessEq, OpGreaterEq, OpLess,
     OpGreater, OpArbitrary}

\* What follows operator op in clause s.
Operand(s, op) == Strip(SubSeq(s, Len(op) + 1, Len(s)))

\* Whether text v may follow operator op.
OperandValid(op, v) ==
    IF op = OpArbitrary THEN v # <<>> /\ \A i \in 1..Len(v) : v[i] # " "
    ELSE IF op = OpCompatible
         THEN IsReleaseString(v) /\ Len(Split(v, ".")) >= 2
    ELSE IsReleaseString(v)

\* The operators clause s can be read with: at most one, none if s is no
\* specifier.
ClauseReadings(s) ==
    {op \in SpecifierOperators :
        HasPrefix(Strip(s), op) /\ OperandValid(op, Operand(Strip(s), op))}

ClauseValid(s) == ClauseReadings(s) # {}

\* Whether release v satisfies the valid clause s.
ClauseContains(s, v) ==
    LET op == CHOOSE o \in ClauseReadings(s) : TRUE
        text == Operand(Strip(s), op)
    IN  IF op = OpArbitrary THEN FormatRelease(v) = text
        ELSE LET r == ParseRelease(text)
             IN  CASE op = OpEqual     -> ReleaseEq(v, r)
                   [] op = OpNotEqual  -> ~ReleaseEq(v, r)
                   [] op = OpLessEq    -> ~ReleaseLess(r, v)
                   [] op = OpGreaterEq -> ~ReleaseLess(v, r)
                   [] op = OpLess      -> ReleaseLess(v, r)
                   [] op = OpGreater   -> ReleaseLess(r, v)
                   [] op = OpCompatible ->
                        /\ ~ReleaseLess(v, r)
                        /\ ReleaseEq(SubSeq(Pad(v, MaxLen(v, r)), 1, Len(r) - 1),
                                     SubSeq(r, 1, Len(r) - 1))

\* The clauses of a specifier set: the non-empty pieces between commas.
Clauses(s) ==
    LET parts == Split(s, ",")
    IN  {Strip(parts[k]) : k \in {i \in 1..Len(parts) : Strip(parts[i]) # <<>>}}

\* The value parses as a specifier set.
SpecifierSetValid(s) == \A c \in Clauses(s) : ClauseValid(c)

\* The value, read as a version specifier, is satisfied by release v: it
\* parses, and v satisfies each of its clauses.
Satisfies(s, v) ==
    SpecifierSetValid(s) /\ \A c \in Clauses(s) : ClauseContains(c, v)

(***************************************************************************)
(* The extension descriptor and the arguments of setup().                  *)
(***************************************************************************)
RustExtension(target, binding) == [target |-> target, binding |-> binding]

RustExtensions_Two ==
    <<RustExtension(ExtensionTarget, ExtensionBinding),
      RustExtension(ExtensionTarget, ExtensionBinding)>>

RustExtensions == <<RustExtension(ExtensionTarget, ExtensionBinding)>>

SetupKwargs_NoZipSafe(extensions) ==
    [name            |-> PackageName,
     version         |-> PackageVersion,
     rust_extensions |-> extensions,
     python_requires |-> PythonRequires]

SetupKwargs(extensions) ==
    [name            |-> PackageName,
     version         |-> PackageVersion,
     rust_extensions |-> extensions,
     zip_safe        |-> ZipSafe,
     python_requires |-> PythonRequires]

\* The dotted path of the module an extension target is installed as.
ModulePath(target) == Split(target, ".")

(***************************************************************************)
(* What the packaging tool does with the arguments: it validates           *)
(* python_requires as a specifier set, checks the running interpreter      *)
(* against it, and builds the extension.                                   *)
(***************************************************************************)
SetupOutcome(kw, version, canBuild) ==
    IF ~SpecifierSetValid(kw.python_requires) THEN "invalid_python_requires"
    ELSE IF ~Satisfies(kw.python_requires, version) THEN "unsupported_python"
    ELSE IF ~canBuild THEN "build_failed"
    ELSE "built"

Rejected(o) == o \in {"invalid_python_requires", "unsupported_python", "build_failed"}

(***************************************************************************)
(* The script, statement by statement.                                     *)
(***************************************************************************)
\* The state: pc is the statement the script is at, namespace the names its
\* imports bound, exts the evaluated rust_extensions list, calls the calls
\* made so far, outcome the result of setup(); pyver and buildable are the
\* environment.
TypeOK ==
    /\ pc \in {"line1", "line2", "line4", "call", "done"}
    /\ namespace \subseteq {"setup", "Binding", "RustExtension"}
    /\ exts \in {<<>>, RustExtensions}
    /\ Len(calls) <= Len(RustExtensions) + 1
    /\ \A k \in 1..Len(calls) : calls[k].callee \in {"RustExtension", "setup"}
    /\ outcome \in {"none", "invalid_python_requires", "unsupported_python",
                    "build_failed", "built"}
    /\ pyver \in InterpreterVersions
    /\ buildable \in BOOLEAN

Init ==
    /\ pc = "line1"
    /\ namespace = {}
    /\ exts = <<>>
    /\ calls = <<>>
    /\ outcome = "none"
    /\ pyver \in InterpreterVersions
    /\ buildable \in BOOLEAN

\* from setuptools import setup
ImportSetup ==
    /\ pc = "line1"
    /\ namespace' = namespace \cup {"setup"}
    /\ pc' = "line2"
    /\ UNCHANGED <<exts, calls, outcome, pyver, buildable>>

\* from setuptools_rust import Binding, RustExtension
ImportSetuptoolsRust ==
    /\ pc = "line2"
    /\ namespace' = namespace \cup {"Binding", "RustExtension"}
    /\ pc' = "line4"
    /\ UNCHANGED <<exts, calls, outcome, pyver, buildable>>

\* The argument list of setup() is evaluated before the call: the list
\* display of line 7 calls RustExtension.
EvalRustExtensions ==
    /\ pc = "line4"
    /\ {"setup", "Binding", "RustExtension"} \subseteq namespace
    /\ exts' = RustExtensions
    /\ calls' = calls \o
           [k \in 1..Len(RustExtensions) |->
               [callee |-> "RustExtension", args |-> RustExtensions[k]]]
    /\ pc' = "call"
    /\ UNCHANGED <<namespace, outcome, pyver, buildable>>

\* setup(name=..., version=..., rust_extensions=..., zip_safe=...,
\* python_requires=...), the last statement of the script.
CallSetup ==
    /\ pc = "call"
    /\ calls' = Append(calls, [callee |-> "setup", args |-> SetupKwargs(exts)])
    /\ outcome' = SetupOutcome(SetupKwargs(exts), pyver, buildable)
    /\ pc' = "done"
    /\ UNCHANGED <<namespace, exts, pyver, buildable>>

Next == ImportSetup \/ ImportSetuptoolsRust \/ EvalRustExtensions \/ CallSetup

Spec == Init /\ [][Next]_vars

\* The arguments of the setup() call, once it has been made.
SetupCalls == {k \in 1..Len(calls) : calls[k].callee = "setup"}

SetupArgs == calls[CHOOSE k \in SetupCalls : TRUE].args

(***************************************************************************)
(* Claims.                                                                 *)
(***************************************************************************)

\* C1: read as a version specifier, the python_requires value passed to
\* setup() is satisfied by interpreter version 3.12.0 and by no other
\* interpreter version.
C1_ExactPin ==
    pc = "done" =>
        (Satisfies(SetupArgs.python_requires, pyver) <=> pyver = <<3, 12, 0>>)

\* C2: the build is rejected if and only if the running interpreter is not
\* exactly 3.12.0 or the extension cannot be built; in particular it is not
\* rejected for interpreter 3.12.0 with a buildable extension.
C2_RejectedIff ==
    pc = "done" =>
        (Rejected(outcome) <=> (pyver # <<3, 12, 0>> \/ ~buildable))

\* C3: the package name passed to setup() is the string "gilboost".
C3_NameLiteral ==
    \A k \in SetupCalls :
        calls[k].args.name = <<"g", "i", "l", "b", "o", "o", "s", "t">>

C3_Witness ==
    /\ pc = "done"
    /\ SetupCalls # {}
    /\ Join(<<SetupArgs.name>>, ".") = <<"g", "i", "l", "b", "o", "o", "s", "t">>

\* C4: the version passed to setup() is the string "0.1.0".
C4_VersionLiteral ==
    \A k \in SetupCalls : calls[k].args.version = <<"0", ".", "1", ".", "0">>

C4_Witness ==
    /\ pc = "done"
    /\ SetupCalls # {}
    /\ ParseRelease(SetupArgs.version) = <<0, 1, 0>>

\* C5: the list of extension descriptors passed to setup() has exactly one
\* element, and that extension is bound through PyO3.
C5_OneExtension ==
    \A k \in SetupCalls :
        /\ Len(calls[k].args.rust_extensions) = 1
        /\ calls[k].args.rust_extensions[1].binding = "PyO3"

C5_Witness ==
    /\ pc = "done"
    /\ SetupCalls # {}
    /\ {SetupArgs.rust_extensions[i].binding :
            i \in 1..Len(SetupArgs.rust_extensions)} = {"PyO3"}

\* C6 as stated: the script performs exactly one setup() invocation, with
\* exactly five arguments, and no other call.
C6_OnlyCallIsSetup ==
    pc = "done" =>
        /\ Cardinality(SetupCalls) = 1
        /\ DOMAIN SetupArgs =
               {"name", "version", "rust_extensions", "zip_safe", "python_requires"}
        /\ Len(calls) = 1

\* C6 as amended: the script performs exactly one setup() invocation, with
\* exactly the five keyword arguments name, version, rust_extensions,
\* zip_safe and python_requires; the only other call it makes is the one
\* RustExtension(...) call that builds the element of the extension list,
\* made before setup() is invoked; and nothing runs or changes after the
\* setup() call.
C6_OneSetupCall ==
    /\ [](/\ Cardinality(SetupCalls) <= 1
          /\ SetupCalls # {} <=> pc = "done"
          /\ pc = "done" =>
                /\ DOMAIN SetupArgs =
                       {"name", "version", "rust_extensions", "zip_safe",
                        "python_requires"}
                /\ Cardinality(DOMAIN SetupArgs) = 5
                /\ [k \in 1..Len(calls) |-> calls[k].callee] =
                       <<"RustExtension", "setup">>)
    /\ [][pc # "done"]_vars

C6_Witness ==
    /\ pc = "done"
    /\ Len(calls) = 2
    /\ calls[2].callee = "setup"
    /\ Cardinality(DOMAIN calls[2].args) = 5

\* C7: the name of the single declared extension target equals the declared
\* package name, both the string "gilboost", so the extension is the
\* top-level module of that name.
C7_TargetIsPackageName ==
    \A k \in SetupCalls :
        LET kw == calls[k].args
        IN  \A i \in 1..Len(kw.rust_extensions) :
                /\ kw.rust_extensions[i].target = kw.name
                /\ kw.name = <<"g", "i", "l", "b", "o", "o", "s", "t">>
                /\ ModulePath(kw.rust_extensions[i].target) = <<kw.name>>

C7_Witness ==
    /\ pc = "done"
    /\ SetupCalls # {}
    /\ Len(SetupArgs.rust_extensions) = 1
    /\ Len(ModulePath(SetupArgs.rust_extensions[1].target)) = 1

\* C8: the zip-safety flag passed to setup() is false.
C8_NotZipSafe ==
    \A k \in SetupCalls : calls[k].args.zip_safe = FALSE

C8_Witness ==
    /\ pc = "done"
    /\ SetupCalls # {}
    /\ "zip_safe" \in DOMAIN SetupArgs
    /\ ~SetupArgs.zip_safe

====
